---- MODULE Spec2Model ----
(***************************************************************************)
(* Staged-import reconciliation pipeline of app_crud_fatec.py:             *)
(* dados_importados (NOVO -> EM_CONFIRMACAO -> PROCESSADO), the staging    *)
(* tables temp_clientes / temp_pedidos, and the record store clientes /    *)
(* pedidos, all reached through one psycopg2 connection `con` whose        *)
(* transaction is committed or rolled back by each menu handler.           *)
(***************************************************************************)
EXTENDS Integers, Sequences, FiniteSets, TLC

VARIABLES
    db,               \* the tables as the connection `con` sees them (uncommitted writes included)
    committed,        \* the tables as last committed on `con`
    clientes_id_seq,  \* SERIAL sequence of clientes.id (never rolled back)
    pedidos_id_seq,   \* SERIAL sequence of pedidos.id (never rolled back)
    sessoes           \* where each operator session stands in the staging screen

vars == <<db, committed, clientes_id_seq, pedidos_id_seq, sessoes>>

----------------------------------------------------------------------------
(* Bounds of the model *)

MaxImports == 2     \* rows of dados_importados
MaxSeq == 1         \* values drawn from each SERIAL sequence

----------------------------------------------------------------------------
(* Values *)

NULL == "NULL"
Hoje == "2025-01-01"

NOVO == "NOVO"
EM_CONFIRMACAO == "EM_CONFIRMACAO"
PROCESSADO == "PROCESSADO"

(* JSON values: a key of an object is absent, holds a non-list value, or a list *)
Ausente == [kind |-> "absent", items |-> <<>>]
Escalar == [kind |-> "scalar", items |-> <<>>]
Lista(s) == [kind |-> "list", items |-> s]

SemRecord == [kind |-> "absent"]
RecordEscalar == [kind |-> "scalar"]
RecordObjeto(o) == [kind |-> "object", obj |-> o]

(* A JSON object: the keys 'clientes', 'pedidos', 'record', and whether it has other keys *)
Obj(c, p, o, r) ==
    [raiz |-> "object", clientes |-> c, pedidos |-> p, outros |-> o, record |-> r]
DictVazio == Obj(Ausente, Ausente, FALSE, SemRecord)

(* JSON documents whose root is not an object. For an array and for a string,
   `contem` holds the keys for which Python's `key in root` is True: an element
   equal to the key, a substring equal to it. *)
ChavesProcuradas == {"clientes", "pedidos", "record"}
RaizLista(contem) == [raiz |-> "array", contem |-> contem]
RaizTexto(contem) == [raiz |-> "string", contem |-> contem]
RaizNumero == [raiz |-> "number"]

Cli(i, e) == [id |-> i, email |-> e]
Ped(i, c, d) == [id |-> i, cliente_id |-> c, data_pedido |-> d]

(* The documents an operator ingests *)
DocDuplicados ==
    Obj(Lista(<<Cli(1, "b@x.com"), Cli(1, "a@x.com")>>),
        Lista(<<Ped(1, 1, Hoje), Ped(1, 2, Hoje), Ped(2, 3, Hoje)>>), TRUE, SemRecord)
DocRecord ==
    Obj(Ausente, Ausente, TRUE,
        RecordObjeto(Obj(Lista(<<Cli(2, "a@x.com")>>),
                         Lista(<<Ped(2, 2, Hoje), Ped(3, 1, NULL)>>), FALSE, SemRecord)))
DocSemColecoes ==
    Obj(Ausente, Ausente, FALSE, RecordObjeto(Obj(Ausente, Ausente, TRUE, SemRecord)))
DocVazio ==
    Obj(Ausente, Ausente, TRUE, RecordEscalar)

Docs == {DocDuplicados, DocRecord, DocSemColecoes, DocVazio}

(* A document whose customers repeat an email under different ids *)
DocEmailRepetido ==
    Obj(Lista(<<Cli(2, "b@x.com"), Cli(3, "b@x.com")>>), Ausente, FALSE, SemRecord)

----------------------------------------------------------------------------
(* Pure helpers *)

(* `key in dict` *)
TemClientes(d) == d.clientes.kind # "absent"
TemPedidos(d) == d.pedidos.kind # "absent"

(* `not dict`: a dict is falsy when it has no key at all *)
Falsy(d) ==
    /\ d.clientes.kind = "absent"
    /\ d.pedidos.kind = "absent"
    /\ ~d.outros
    /\ d.record.kind = "absent"

(* isinstance(x, dict) *)
EhObjeto(d) == d.raiz = "object"

(* The call raised TypeError: `in` on a number, a boolean or null, or
   dado_json['record'] on an array or a string *)
ErroDeTipo == [raiz |-> "TypeError"]

find_data_in_json(dado_json) ==
    IF EhObjeto(dado_json)
    THEN IF TemClientes(dado_json) \/ TemPedidos(dado_json)
         THEN dado_json
         ELSE IF dado_json.record.kind = "object"
              THEN dado_json.record.obj
              ELSE DictVazio
    ELSE IF dado_json.raiz \in {"array", "string"}
    THEN IF "clientes" \in dado_json.contem \/ "pedidos" \in dado_json.contem
         THEN dado_json
         ELSE IF "record" \in dado_json.contem
              THEN ErroDeTipo
              ELSE DictVazio
    ELSE ErroDeTipo

----------------------------------------------------------------------------
(* The connection's transaction *)

(* con.commit(): the connection's view becomes the committed state *)
Commit(comm, atual) == atual

(* con.rollback(): the connection's view goes back to the committed state *)
Rollback(comm, atual) == comm

Res(d, comm, op) == [db |-> d, committed |-> comm, op |-> op]
(* What a handler showed the operator: the outcome, the id it was given, the counts
   it printed, and the status the raw import had when the handler read it *)
Op(nome, id, resultado, ncli, nped, antes) ==
    [op |-> nome, id |-> id, resultado |-> resultado,
     clientes |-> ncli, pedidos |-> nped, antes |-> antes]

Ids(rows) == {r.id : r \in rows}
DoLote(rows, batch) == {r \in rows : r.batch_id = batch}

----------------------------------------------------------------------------
(* Staging: ui_processar_dados_importados *)

(* DELETE FROM temp_clientes / temp_pedidos WHERE batch_id = %s *)
DeleteTemp(d, batch) ==
    [d EXCEPT !.temp_clientes = {r \in @ : r.batch_id # batch},
              !.temp_pedidos = {r \in @ : r.batch_id # batch}]

(* Faulty variant: no conflict is ever detected on (batch_id, id) *)
ConflitoTempIgnorado(rows, batch, id) == FALSE

(* ON CONFLICT DO NOTHING on PRIMARY KEY (batch_id, id) *)
ConflitoTemp(rows, batch, id) == \E r \in rows : r.batch_id = batch /\ r.id = id

(* One INSERT INTO temp_clientes ... ON CONFLICT DO NOTHING; cur.rowcount is n.
   temp_clientes.email is NOT NULL, checked before the conflict *)
InsertTempCliente(rows, batch, cliente) ==
    IF cliente.email = NULL
    THEN [ok |-> FALSE, rows |-> rows, n |-> 0]
    ELSE IF ConflitoTemp(rows, batch, cliente.id)
    THEN [ok |-> TRUE, rows |-> rows, n |-> 0]
    ELSE [ok |-> TRUE,
          rows |-> rows \cup {[batch_id |-> batch, id |-> cliente.id,
                               email |-> cliente.email]},
          n |-> 1]

(* Faulty variant: ON CONFLICT ... DO UPDATE, the later occurrence replaces the staged row *)
InsertTempPedidoDoUpdate(rows, batch, pedido) ==
    [ok |-> TRUE,
     rows |-> {r \in rows : ~(r.batch_id = batch /\ r.id = pedido.id)}
              \cup {[batch_id |-> batch, id |-> pedido.id,
                     cliente_id |-> pedido.cliente_id,
                     data_pedido |-> pedido.data_pedido]},
     n |-> 1]

(* One INSERT INTO temp_pedidos ... ON CONFLICT DO NOTHING; cur.rowcount is n *)
InsertTempPedido(rows, batch, pedido) ==
    IF ConflitoTemp(rows, batch, pedido.id)
    THEN [ok |-> TRUE, rows |-> rows, n |-> 0]
    ELSE [ok |-> TRUE,
          rows |-> rows \cup {[batch_id |-> batch, id |-> pedido.id,
                               cliente_id |-> pedido.cliente_id,
                               data_pedido |-> pedido.data_pedido]},
          n |-> 1]

(* for cliente in dados_encontrados['clientes']: ...; clientes_carregados += cur.rowcount *)
RECURSIVE CarregarClientes(_, _, _, _, _)
CarregarClientes(rows, batch, items, i, n) ==
    IF i > Len(items)
    THEN [ok |-> TRUE, rows |-> rows, n |-> n]
    ELSE LET r == InsertTempCliente(rows, batch, items[i])
         IN IF ~r.ok
            THEN [ok |-> FALSE, rows |-> rows, n |-> n]
            ELSE CarregarClientes(r.rows, batch, items, i + 1, n + r.n)

(* for pedido in dados_encontrados['pedidos']: ...; pedidos_carregados += cur.rowcount *)
RECURSIVE CarregarPedidos(_, _, _, _, _)
CarregarPedidos(rows, batch, items, i, n) ==
    IF i > Len(items)
    THEN [ok |-> TRUE, rows |-> rows, n |-> n]
    ELSE LET r == InsertTempPedido(rows, batch, items[i])
         IN IF ~r.ok
            THEN [ok |-> FALSE, rows |-> rows, n |-> n]
            ELSE CarregarPedidos(r.rows, batch, items, i + 1, n + r.n)

Tx(ok, d, ncli, nped) == [ok |-> ok, db |-> d, clientes |-> ncli, pedidos |-> nped]

(* Points at which a statement may raise inside the handler's transaction (a
   constraint violation, a value the column rejects, a lost connection) *)
FalhasStaging == {"nenhuma", "delete", "clientes", "pedidos", "status", "commit"}

(* The body of `with con.cursor() as cur:` and con.commit() in staging.
   The result carries the connection's view at the point where it stopped. *)
TransacaoStaging(d, id_registro, dados, falha) ==
    LET d1 == DeleteTemp(d, id_registro)
        c == IF dados.clientes.kind = "list"
             THEN CarregarClientes(d1.temp_clientes, id_registro, dados.clientes.items, 1, 0)
             ELSE [ok |-> TRUE, rows |-> d1.temp_clientes, n |-> 0]
        d2 == [d1 EXCEPT !.temp_clientes = c.rows]
        p == IF dados.pedidos.kind = "list"
             THEN CarregarPedidos(d2.temp_pedidos, id_registro, dados.pedidos.items, 1, 0)
             ELSE [ok |-> TRUE, rows |-> d2.temp_pedidos, n |-> 0]
        d3 == [d2 EXCEPT !.temp_pedidos = p.rows]
        d4 == [d3 EXCEPT !.dados_importados[id_registro].status = EM_CONFIRMACAO]
    IN  IF falha = "delete" THEN Tx(FALSE, d, 0, 0)
        ELSE IF ~EhObjeto(dados) THEN Tx(FALSE, d1, 0, 0)
        ELSE IF falha = "clientes" THEN Tx(FALSE, d1, 0, 0)
        ELSE IF ~c.ok THEN Tx(FALSE, d2, c.n, 0)
        ELSE IF falha = "pedidos" THEN Tx(FALSE, d2, c.n, 0)
        ELSE IF ~p.ok THEN Tx(FALSE, d3, c.n, p.n)
        ELSE IF falha = "status" THEN Tx(FALSE, d3, c.n, p.n)
        ELSE IF falha = "commit" THEN Tx(FALSE, d4, c.n, p.n)
        ELSE Tx(TRUE, d4, c.n, p.n)

(* Faulty variant: the handler reports the error and forgets con.rollback() *)
ExceptStagingSemRollback(comm, atual) == atual

(* except Exception as e: print(...); con.rollback() *)
ExceptStaging(comm, atual) == Rollback(comm, atual)

(* Faulty variant: there is no status test *)
PodeProcessarSempre(status) == TRUE

(* Faulty variant: the status test lets a record in confirmation through *)
PodeProcessarEmConfirmacao(status) == status # PROCESSADO

(* if status != 'NOVO': ... continue *)
PodeProcessar(status) == status = NOVO

(* except ValueError: print(...); pause() -- the transaction is left as it is *)
ExceptValueError(comm, atual) == atual

(* if not dados_encontrados: raise ValueError(...) *)
EstruturaNaoReconhecida(dados) == EhObjeto(dados) /\ Falsy(dados)

ui_processar_dados_importados(d, comm, id_registro, confirmacao, falha) ==
    IF Len(d.dados_importados) = 0
    THEN Res(d, comm, Op("processar", id_registro, "vazio", 0, 0, "-"))
    ELSE IF id_registro \notin DOMAIN d.dados_importados
    THEN Res(d, comm, Op("processar", id_registro, "nao_encontrado", 0, 0, "-"))
    ELSE LET reg == d.dados_importados[id_registro]
             dados == find_data_in_json(reg.dado_json)
             t == TransacaoStaging(d, id_registro, dados, falha)
         IN  IF ~PodeProcessar(reg.status)
             THEN Res(d, comm, Op("processar", id_registro, "rejeitado", 0, 0, reg.status))
             ELSE IF confirmacao # "S"
             THEN Res(d, comm, Op("processar", id_registro, "cancelado", 0, 0, reg.status))
             ELSE IF dados = ErroDeTipo
             THEN Res(ExceptStaging(comm, d), comm,
                      Op("processar", id_registro, "erro", 0, 0, reg.status))
             ELSE IF EstruturaNaoReconhecida(dados)
             THEN Res(ExceptValueError(comm, d), comm,
                      Op("processar", id_registro, "erro_estrutura", 0, 0, reg.status))
             ELSE IF t.ok
             THEN Res(t.db, Commit(comm, t.db),
                      Op("processar", id_registro, "ok", t.clientes, t.pedidos, reg.status))
             ELSE Res(ExceptStaging(comm, t.db), comm,
                      Op("processar", id_registro, "erro", 0, 0, reg.status))

(* The handler from its prompt on, for a row read before: the answer, the
   extraction, the transaction and the except blocks. The status is not read
   again and no statement names it in a WHERE; each statement of the
   transaction sees what is committed when it runs (READ COMMITTED, the
   driver's default). *)
CarregarParaStaging(d, comm, id_registro, dado_json, status, confirmacao, falha) ==
    LET dados == find_data_in_json(dado_json)
        t == TransacaoStaging(d, id_registro, dados, falha)
    IN  IF confirmacao # "S"
        THEN Res(d, comm, Op("processar", id_registro, "cancelado", 0, 0, status))
        ELSE IF dados = ErroDeTipo
        THEN Res(ExceptStaging(comm, d), comm,
                 Op("processar", id_registro, "erro", 0, 0, status))
        ELSE IF EstruturaNaoReconhecida(dados)
        THEN Res(ExceptValueError(comm, d), comm,
                 Op("processar", id_registro, "erro_estrutura", 0, 0, status))
        ELSE IF t.ok
        THEN Res(t.db, Commit(comm, t.db),
                 Op("processar", id_registro, "ok", t.clientes, t.pedidos, status))
        ELSE Res(ExceptStaging(comm, t.db), comm,
                 Op("processar", id_registro, "erro", 0, 0, status))

----------------------------------------------------------------------------
(* Promotion: ui_confirmar_dados_processados *)

(* lotes: SELECT di.id ... WHERE di.status = 'EM_CONFIRMACAO' GROUP BY di.id *)
Lotes(d) == {i \in DOMAIN d.dados_importados : d.dados_importados[i].status = EM_CONFIRMACAO}

(* Faulty variant: ON CONFLICT (id) DO UPDATE, the staged row overwrites the existing one *)
InserirClientesDoUpdate(clientes, staged) ==
    [ok |-> TRUE,
     rows |-> {c \in clientes : c.id \notin Ids(staged)}
              \cup {[id |-> s.id, email |-> s.email] : s \in staged},
     n |-> Cardinality(staged)]

(* Faulty variant: ON CONFLICT DO NOTHING without a target, a staged row whose id
   or email is taken is skipped instead of failing the statement *)
InserirClientesIgnoraConflitos(clientes, staged) ==
    LET novos == {s \in staged :
                    /\ s.id \notin Ids(clientes)
                    /\ ~\E c \in clientes : c.email = s.email
                    /\ ~\E t \in staged : /\ t.id < s.id
                                           /\ t.id \notin Ids(clientes)
                                           /\ t.email = s.email}
    IN  [ok |-> TRUE,
         rows |-> clientes \cup {[id |-> s.id, email |-> s.email] : s \in novos},
         n |-> Cardinality(novos)]

(* Faulty variant: the rows of one INSERT ... SELECT are compared with the rows
   already in the table only, not with each other *)
ViolaEmailUnicoSoExistentes(novos, clientes) ==
    \E s \in novos : \E c \in clientes : c.email = s.email

(* clientes.email UNIQUE, for the rows one INSERT ... SELECT adds *)
ViolaEmailUnico(novos, clientes) ==
    \/ \E s \in novos : \E c \in clientes : c.email = s.email
    \/ \E s1 \in novos : \E s2 \in novos : s1.id # s2.id /\ s1.email = s2.email

(* INSERT INTO clientes SELECT ... FROM temp_clientes WHERE batch_id = %s
   ON CONFLICT (id) DO NOTHING; clientes.email is UNIQUE *)
InserirClientes(clientes, staged) ==
    LET novos == {s \in staged : s.id \notin Ids(clientes)}
        viola == ViolaEmailUnico(novos, clientes)
    IN  IF viola
        THEN [ok |-> FALSE, rows |-> clientes, n |-> 0]
        ELSE [ok |-> TRUE,
              rows |-> clientes \cup {[id |-> s.id, email |-> s.email] : s \in novos},
              n |-> Cardinality(novos)]

(* Faulty variant: the INSERT ... SELECT without the JOIN on clientes *)
JoinOmitido(staged, clientes) == staged

(* FROM temp_pedidos tp JOIN clientes c ON tp.cliente_id = c.id *)
JoinClientes(staged, clientes) == {s \in staged : s.cliente_id \in Ids(clientes)}

(* Faulty variant: the INSERT ... SELECT has no JOIN, and the foreign key on
   pedidos.cliente_id rejects the statement when a staged order names no customer *)
InserirPedidosChaveEstrangeira(pedidos, clientes, staged) ==
    LET novos == {s \in staged : s.id \notin Ids(pedidos)}
    IN  IF \E s \in staged : s.data_pedido = NULL \/ s.cliente_id \notin Ids(clientes)
        THEN [ok |-> FALSE, rows |-> pedidos, n |-> 0]
        ELSE [ok |-> TRUE,
              rows |-> pedidos \cup {[id |-> s.id, cliente_id |-> s.cliente_id,
                                      data_pedido |-> s.data_pedido] : s \in novos},
              n |-> Cardinality(novos)]

(* INSERT INTO pedidos SELECT ... JOIN clientes ... ON CONFLICT (id) DO NOTHING;
   pedidos.data_pedido is NOT NULL, checked before the conflict *)
InserirPedidos(pedidos, clientes, staged) ==
    LET cand == JoinClientes(staged, clientes)
        novos == {s \in cand : s.id \notin Ids(pedidos)}
    IN  IF \E s \in cand : s.data_pedido = NULL
        THEN [ok |-> FALSE, rows |-> pedidos, n |-> 0]
        ELSE [ok |-> TRUE,
              rows |-> pedidos \cup {[id |-> s.id, cliente_id |-> s.cliente_id,
                                      data_pedido |-> s.data_pedido] : s \in novos},
              n |-> Cardinality(novos)]

(* Faulty variant: the staged rows of the lote are left in place *)
LimparTemporariasOmitido(d, id_lote) == d

(* Faulty variant: only the DELETE FROM temp_clientes is executed *)
LimparTemporariasSoClientes(d, id_lote) ==
    [d EXCEPT !.temp_clientes = {r \in @ : r.batch_id # id_lote}]

(* Faulty variant: the DELETEs have no WHERE batch_id = %s *)
LimparTemporariasDeTodos(d, id_lote) == [d EXCEPT !.temp_clientes = {}, !.temp_pedidos = {}]

(* Limpa as tabelas temporarias para este lote *)
LimparTemporarias(d, id_lote) == DeleteTemp(d, id_lote)

(* Faulty variant: the UPDATE rewrites the whole row and loses the payload *)
MarcarProcessadoReescreve(d, id_lote) ==
    IF id_lote \in DOMAIN d.dados_importados
    THEN [d EXCEPT !.dados_importados[id_lote] = [dado_json |-> DictVazio, status |-> PROCESSADO]]
    ELSE d

(* UPDATE dados_importados SET status = 'PROCESSADO' WHERE id = %s *)
MarcarProcessado(d, id_lote) ==
    IF id_lote \in DOMAIN d.dados_importados
    THEN [d EXCEPT !.dados_importados[id_lote].status = PROCESSADO]
    ELSE d

FalhasPromocao == {"nenhuma", "clientes", "pedidos", "delete", "status", "commit"}

(* Faulty variant: the JOIN reads clientes as it was before the lote's customers
   were inserted *)
ClientesVistosAntes(antes, depois) == antes

(* The second INSERT runs on the same cursor after the first: its JOIN sees the
   customers the first one inserted *)
ClientesVistos(antes, depois) == depois

TransacaoPromocao(d, id_lote, falha) ==
    LET c == InserirClientes(d.clientes, DoLote(d.temp_clientes, id_lote))
        d1 == [d EXCEPT !.clientes = c.rows]
        p == InserirPedidos(d1.pedidos, ClientesVistos(d.clientes, d1.clientes),
                            DoLote(d1.temp_pedidos, id_lote))
        d2 == [d1 EXCEPT !.pedidos = p.rows]
        d3 == LimparTemporarias(d2, id_lote)
        d4 == MarcarProcessado(d3, id_lote)
    IN  IF falha = "clientes" \/ ~c.ok THEN Tx(FALSE, d, 0, 0)
        ELSE IF falha = "pedidos" \/ ~p.ok THEN Tx(FALSE, d1, c.n, 0)
        ELSE IF falha = "delete" THEN Tx(FALSE, d2, c.n, p.n)
        ELSE IF falha = "status" THEN Tx(FALSE, d3, c.n, p.n)
        ELSE IF falha = "commit" THEN Tx(FALSE, d4, c.n, p.n)
        ELSE Tx(TRUE, d4, c.n, p.n)

(* Faulty variant: the handler reports the error and forgets con.rollback() *)
ExceptPromocaoSemRollback(comm, atual) == atual

(* except Exception as e: print(...); con.rollback() *)
ExceptPromocao(comm, atual) == Rollback(comm, atual)

StatusDe(d, id) ==
    IF id \in DOMAIN d.dados_importados THEN d.dados_importados[id].status ELSE "-"

ui_confirmar_dados_processados(d, comm, id_lote, confirmacao, falha) ==
    LET t == TransacaoPromocao(d, id_lote, falha)
        antes == StatusDe(d, id_lote)
    IN  IF Lotes(d) = {}
        THEN Res(d, comm, Op("confirmar", id_lote, "vazio", 0, 0, antes))
        ELSE IF confirmacao # "S"
        THEN Res(d, comm, Op("confirmar", id_lote, "cancelado", 0, 0, antes))
        ELSE IF t.ok
        THEN Res(t.db, Commit(comm, t.db),
                 Op("confirmar", id_lote, "ok", t.clientes, t.pedidos, antes))
        ELSE Res(ExceptPromocao(comm, t.db), comm,
                 Op("confirmar", id_lote, "erro", 0, 0, antes))

----------------------------------------------------------------------------
(* Ingestion and direct cadastral entry *)

(* What a file or a response body holds when it is not JSON, and the absence of a
   chosen file *)
NaoJson == [kind |-> "naojson"]
NenhumArquivo == [kind |-> "nenhum"]

(* Faulty variant: the row is inserted already in confirmation *)
InserirDadoImportadoEmConfirmacao(d, dado_json) ==
    [d EXCEPT !.dados_importados =
         Append(@, [dado_json |-> dado_json, status |-> EM_CONFIRMACAO])]

(* INSERT INTO dados_importados (dado_json) VALUES (%s) RETURNING id;
   id is SERIAL, status defaults to 'NOVO' *)
InserirDadoImportado(d, dado_json) ==
    [d EXCEPT !.dados_importados = Append(@, [dado_json |-> dado_json, status |-> NOVO])]

(* Points at which the ingestion's INSERT or commit may raise *)
FalhasImportacao == {"nenhuma", "insert", "commit"}

(* except Exception as e: log_evento(...); print(...) -- no rollback *)
ExceptImportacaoLocal(comm, atual) == atual

(* ui_importar_dados_local: choose a .json file, json.load it, INSERT, commit.
   A statement that raises writes nothing, and a commit that raises ends the
   transaction without its writes. *)
ui_importar_dados_local(d, comm, arquivo, falha) ==
    LET novo_id == Len(d.dados_importados) + 1
        d1 == InserirDadoImportado(d, arquivo)
    IN  IF arquivo = NenhumArquivo
        THEN Res(d, comm, Op("importar", 0, "cancelado", 0, 0, "-"))
        ELSE IF arquivo = NaoJson
        THEN Res(ExceptImportacaoLocal(comm, d), comm, Op("importar", 0, "erro_json", 0, 0, "-"))
        ELSE IF falha = "insert"
        THEN Res(ExceptImportacaoLocal(comm, d), comm, Op("importar", 0, "erro", 0, 0, "-"))
        ELSE IF falha = "commit"
        THEN Res(ExceptImportacaoLocal(comm, comm), comm, Op("importar", 0, "erro", 0, 0, "-"))
        ELSE Res(d1, Commit(comm, d1), Op("importar", novo_id, "ok", 0, 0, "-"))

(* requests.get(url) raised a RequestException *)
ErroDeRequisicao == [kind |-> "erro_requisicao"]
RespostaHTTP(codigo, corpo) == [kind |-> "resposta", status_code |-> codigo, corpo |-> corpo]

(* The status codes of the elif chain that raise ValueError *)
StatusMapeados == {301, 302, 400, 401, 403, 404, 408, 429, 500, 502, 503, 504}

(* Faulty variant: only the 4xx codes of the chain raise *)
StatusComErroSo4xx(codigo) == codigo \in {400, 401, 403, 404, 408, 429}

StatusComErro(codigo) == codigo \in StatusMapeados

(* Faulty variant: the body is taken as it comes *)
CorpoQualquer(corpo) == TRUE

(* response.json() returns the document; otherwise json.JSONDecodeError *)
CorpoEhJson(corpo) == corpo # NaoJson

(* Faulty variant: the answer is not looked at *)
ConfirmadoSempre(confirmacao) == TRUE

(* if confirmacao == 'S': *)
Confirmado(confirmacao) == confirmacao = "S"

(* except ...: log_evento(...); print(...); try: con.rollback() except: pass *)
ExceptImportacao(comm, atual) == Rollback(comm, atual)

(* ui_importar_dados: URL, requests.get, status chain, response.json(), preview,
   confirmation, INSERT, commit *)
ui_importar_dados(d, comm, url, resposta, confirmacao, falha) ==
    LET novo_id == Len(d.dados_importados) + 1
        d1 == InserirDadoImportado(d, resposta.corpo)
    IN  IF url = ""
        THEN Res(d, comm, Op("importar_web", 0, "sem_url", 0, 0, "-"))
        ELSE IF resposta = ErroDeRequisicao
        THEN Res(ExceptImportacao(comm, d), comm,
                 Op("importar_web", 0, "erro_requisicao", 0, 0, "-"))
        ELSE IF StatusComErro(resposta.status_code)
        THEN Res(ExceptImportacao(comm, d), comm,
                 Op("importar_web", 0, "erro_status", 0, 0, "-"))
        ELSE IF ~CorpoEhJson(resposta.corpo)
        THEN Res(ExceptImportacao(comm, d), comm,
                 Op("importar_web", 0, "erro_json", 0, 0, "-"))
        ELSE IF ~Confirmado(confirmacao)
        THEN Res(d, comm, Op("importar_web", 0, "cancelado", 0, 0, "-"))
        ELSE IF falha = "insert"
        THEN Res(ExceptImportacao(comm, d), comm, Op("importar_web", 0, "erro", 0, 0, "-"))
        ELSE IF falha = "commit"
        THEN Res(ExceptImportacao(comm, d1), comm, Op("importar_web", 0, "erro", 0, 0, "-"))
        ELSE Res(d1, Commit(comm, d1), Op("importar_web", novo_id, "ok", 0, 0, "-"))

(* INSERT INTO clientes (nome, email, telefone) ... RETURNING id; the id is
   nextval of the SERIAL sequence; id is PRIMARY KEY and email UNIQUE *)
ui_cadastrar_cliente(d, comm, seq, email) ==
    LET new_id == seq + 1
        d1 == [d EXCEPT !.clientes = @ \cup {[id |-> new_id, email |-> email]}]
    IN  IF new_id \in Ids(d.clientes) \/ \E c \in d.clientes : c.email = email
        THEN Res(Rollback(comm, d), comm, Op("cadastrar_cliente", new_id, "erro", 0, 0, "-"))
        ELSE Res(d1, Commit(comm, d1), Op("cadastrar_cliente", new_id, "ok", 1, 0, "-"))

(* Faulty variant: the foreign key deletes no order with its customer *)
OnDeleteSemCascade(pedidos, cliente_id) == pedidos

(* pedidos.cliente_id REFERENCES clientes(id) ON DELETE CASCADE *)
OnDeleteCascade(pedidos, cliente_id) == {p \in pedidos : p.cliente_id # cliente_id}

(* DELETE FROM clientes WHERE id = %s; con.commit() *)
ui_excluir_cliente(d, comm, cliente_id, confirmacao) ==
    LET d1 == [d EXCEPT !.clientes = {c \in @ : c.id # cliente_id},
                        !.pedidos = OnDeleteCascade(@, cliente_id)]
    IN  IF cliente_id \notin Ids(d.clientes)
        THEN Res(d, comm, Op("excluir_cliente", cliente_id, "nao_encontrado", 0, 0, "-"))
        ELSE IF confirmacao # "S"
        THEN Res(d, comm, Op("excluir_cliente", cliente_id, "cancelado", 0, 0, "-"))
        ELSE Res(d1, Commit(comm, d1), Op("excluir_cliente", cliente_id, "ok", 0, 0, "-"))

(* SELECT id FROM clientes WHERE id = %s; INSERT INTO pedidos (cliente_id, valor, item)
   ... RETURNING id; data_pedido defaults to CURRENT_DATE *)
ui_cadastrar_pedido(d, comm, seq, cliente_id) ==
    LET new_id == seq + 1
        d1 == [d EXCEPT !.pedidos = @ \cup {[id |-> new_id, cliente_id |-> cliente_id,
                                             data_pedido |-> Hoje]}]
    IN  IF cliente_id \notin Ids(d.clientes)
        THEN Res(d, comm, Op("cadastrar_pedido", 0, "nao_encontrado", 0, 0, "-"))
        ELSE IF new_id \in Ids(d.pedidos)
        THEN Res(Rollback(comm, d), comm, Op("cadastrar_pedido", new_id, "erro", 0, 0, "-"))
        ELSE Res(d1, Commit(comm, d1), Op("cadastrar_pedido", new_id, "ok", 0, 1, "-"))

(* Faulty variant: the UNIQUE constraint on clientes.email is not there *)
EmailUnicoIgnorado(clientes, cliente_id, email) == TRUE

(* clientes.email VARCHAR(100) UNIQUE NOT NULL, as seen by an UPDATE of one row *)
EmailUnico(clientes, cliente_id, email) ==
    ~\E c \in clientes : c.id # cliente_id /\ c.email = email

(* SELECT * FROM clientes WHERE id = %s; UPDATE clientes SET ..., email = %s ...
   WHERE id = %s; con.commit(). An empty answer keeps the field. *)
ui_editar_cliente(d, comm, cliente_id, email_digitado) ==
    LET atual == CHOOSE c \in d.clientes : c.id = cliente_id
        novo_email == IF email_digitado = "" THEN atual.email ELSE email_digitado
        d1 == [d EXCEPT !.clientes = (@ \ {atual}) \cup {[atual EXCEPT !.email = novo_email]}]
    IN  IF cliente_id \notin Ids(d.clientes)
        THEN Res(d, comm, Op("editar_cliente", cliente_id, "nao_encontrado", 0, 0, "-"))
        ELSE IF ~EmailUnico(d.clientes, cliente_id, novo_email)
        THEN Res(Rollback(comm, d), comm, Op("editar_cliente", cliente_id, "erro", 0, 0, "-"))
        ELSE Res(d1, Commit(comm, d1), Op("editar_cliente", cliente_id, "ok", 0, 0, "-"))

----------------------------------------------------------------------------
(* Export: ui_exportar_dados reads both tables and writes a JSON document *)

(* cur.fetchall() of SELECT ... ORDER BY id: the rows as a list, by ascending id *)
RECURSIVE OrderById(_)
OrderById(rows) ==
    IF rows = {}
    THEN <<>>
    ELSE LET primeiro == CHOOSE r \in rows : \A o \in rows : r.id <= o.id
         IN  <<primeiro>> \o OrderById(rows \ {primeiro})

(* Faulty variant: the date is written as it was read, which json.dump cannot
   serialise, so the key comes out as null *)
StrDataNula(data_pedido) == NULL

(* str(p[2]): the ISO text of a datetime.date, the text the documents carry for a
   date; str(None) is the text 'None' *)
StrData(data_pedido) == IF data_pedido = NULL THEN "None" ELSE data_pedido

(* {"id": c[0], "nome": c[1], "email": c[2], "telefone": c[3]} for c in clientes *)
ClientesExportados(clientes) ==
    LET linhas == OrderById(clientes)
    IN  [i \in 1..Len(linhas) |-> Cli(linhas[i].id, linhas[i].email)]

(* {"id": p[0], "cliente_id": p[1], "data_pedido": str(p[2]), ...} for p in pedidos *)
PedidosExportados(pedidos) ==
    LET linhas == OrderById(pedidos)
    IN  [i \in 1..Len(linhas) |->
            Ped(linhas[i].id, linhas[i].cliente_id, StrData(linhas[i].data_pedido))]

(* ui_exportar_dados: both keys are always written, with a list each, and no
   table is written to; an answer other than 'S' writes no file *)
ui_exportar_dados(d, confirmacao) ==
    IF confirmacao # "S"
    THEN [resultado |-> "cancelado", dados |-> NenhumArquivo]
    ELSE [resultado |-> "ok",
          dados |-> Obj(Lista(ClientesExportados(d.clientes)),
                        Lista(PedidosExportados(d.pedidos)), FALSE, SemRecord)]

----------------------------------------------------------------------------
(* Logging: log_evento, on a connection of the pool, apart from `con` *)

(* DatabasePool._pool: None until get_pool has built the pool *)
PoolNone == "None"
PoolPronto == "pronto"

(* What the call meets: PG_PASSWORD not set, the pool cannot be built or gives
   no connection, the INSERT or its commit fails, or nothing goes wrong *)
EstadosDoLog == {"ok", "sem_senha", "sem_conexao", "insert_falhou"}

(* get_pool: with _pool None and no password, sys.exit(1); SystemExit is not an
   Exception. A pool that exists is returned without looking at the password. *)
get_pool_encerra(pool, estado) == pool = PoolNone /\ estado = "sem_senha"

(* try: with get_db_connection() as con: INSERT INTO logs ...; con.commit()
   except Exception as e: print(f"CRITICAL LOGGING ERROR: {e}") *)
log_evento(level, message, pool, estado) ==
    IF get_pool_encerra(pool, estado)
    THEN [raised |-> TRUE, linhas |-> <<>>, console |-> <<"ERRO CRITICO: PG_PASSWORD">>]
    ELSE IF estado \in {"ok", "sem_senha"}
    THEN [raised |-> FALSE, linhas |-> <<[level |-> level, message |-> message]>>,
          console |-> <<>>]
    ELSE [raised |-> FALSE, linhas |-> <<>>, console |-> <<"CRITICAL LOGGING ERROR">>]

(* main: log_evento("INFO", "Aplicacao iniciada.") comes before
   DatabasePool.get_pool(), so it is the call that builds the pool *)
main_inicio(estado) == log_evento("INFO", "Aplicacao iniciada.", PoolNone, estado)

Chamada(level, message) == <<[level |-> level, message |-> message]>>

(* The call of log_evento each handler makes for each of its outcomes *)
ChamadasDeLog(op) ==
    IF op.op = "importar"
    THEN IF op.resultado = "ok" THEN Chamada("INFO", "importado de arquivo local")
         ELSE IF op.resultado \in {"erro", "erro_json"}
         THEN Chamada("ERROR", "falha ao importar arquivo local")
         ELSE <<>>
    ELSE IF op.op = "importar_web"
    THEN IF op.resultado = "ok" THEN Chamada("INFO", "importado da web")
         ELSE IF op.resultado = "sem_url" THEN Chamada("INFO", "cancelada por falta de URL")
         ELSE IF op.resultado = "cancelado" THEN Chamada("INFO", "cancelada pelo usuario")
         ELSE IF op.resultado = "erro_requisicao" THEN Chamada("ERROR", "erro de requisicao")
         ELSE IF op.resultado \in {"erro_status", "erro_json"}
         THEN Chamada("ERROR", "erro de valor")
         ELSE Chamada("CRITICAL", "erro inesperado")
    ELSE IF op.op = "processar"
    THEN IF op.resultado = "ok" THEN Chamada("INFO", "processado para staging") ELSE <<>>
    ELSE IF op.op = "confirmar"
    THEN <<>>
    ELSE IF op.op = "editar_cliente"
    THEN IF op.resultado = "ok" THEN Chamada("INFO", "cliente atualizado") ELSE <<>>
    ELSE IF op.op = "excluir_cliente"
    THEN IF op.resultado = "ok" THEN Chamada("INFO", "cliente excluido")
         ELSE IF op.resultado = "cancelado" THEN Chamada("INFO", "exclusao cancelada")
         ELSE IF op.resultado = "erro" THEN Chamada("ERROR", "erro ao excluir")
         ELSE <<>>
    ELSE IF op.op \in {"cadastrar_cliente", "cadastrar_pedido"}
    THEN IF op.resultado = "ok" THEN Chamada("INFO", "cadastrado")
         ELSE IF op.resultado = "erro" THEN Chamada("ERROR", "erro ao cadastrar")
         ELSE <<>>
    ELSE <<>>

(* A handler run together with its logging: the rows appended to logs, what went
   to the console instead, and whether an exception of log_evento ended the run
   (it would leave the handler from inside its try or its except block). The
   menu is entered after main has built the pool. *)
ComLog(r, estado) ==
    LET chamadas == ChamadasDeLog(r.op)
        l == log_evento(chamadas[1].level, chamadas[1].message, PoolPronto, estado)
    IN  IF chamadas = <<>>
        THEN [db |-> r.db, committed |-> r.committed, op |-> r.op,
              logs |-> <<>>, console |-> <<>>, fatal |-> FALSE]
        ELSE [db |-> r.db, committed |-> r.committed, op |-> r.op,
              logs |-> l.linhas, console |-> l.console, fatal |-> l.raised]

(* The except blocks that end a handler run *)

(* The run left its try block through an exception *)
TerminouEmExcecao(op) ==
    op.resultado \in {"erro", "erro_json", "erro_status", "erro_requisicao", "erro_estrutura"}

(* What the except block does with the connection: no rollback at all, a
   con.rollback() wrapped in try/except, or a bare con.rollback() *)
RollbackDe(op) ==
    IF ~TerminouEmExcecao(op) THEN "nenhum"
    ELSE IF op.op = "importar" THEN "nenhum"
    ELSE IF op.op = "importar_web" THEN "protegido"
    ELSE IF op.op = "processar"
    THEN IF op.resultado = "erro_estrutura" THEN "nenhum" ELSE "desprotegido"
    ELSE IF op.op \in {"confirmar", "editar_cliente", "excluir_cliente"} THEN "desprotegido"
    ELSE IF op.op \in {"cadastrar_cliente", "cadastrar_pedido"} THEN "protegido"
    ELSE "nenhum"

(* con.rollback() on a connection that is still there, or on one that was lost:
   psycopg2 raises InterfaceError or OperationalError *)
EstadosDoRollback == {"ok", "falhou"}

(* An exception raised inside an except block leaves the handler. The menus catch
   ValueError only, so it reaches main: except Exception prints "Erro fatal",
   finally closes the pool, and the process ends. *)
EncerraProcesso(r, rollback) ==
    RollbackDe(r.op) = "desprotegido" /\ rollback = "falhou"

----------------------------------------------------------------------------
(* The state machine: one action per menu handler *)

(* Two operators, each running the program on a connection of its own *)
Sessoes == {1, 2}

(* A session is at a menu, or at the prompt of the staging screen, holding the
   id it was given and the row it read *)
NoMenu == [pc |-> "menu", id_registro |-> 0, dado_json |-> NenhumArquivo, status |-> "-"]
NaConfirmacao(id_registro, reg) ==
    [pc |-> "confirmacao", id_registro |-> id_registro,
     dado_json |-> reg.dado_json, status |-> reg.status]

TabelasVazias ==
    [clientes |-> {}, pedidos |-> {}, dados_importados |-> <<>>,
     temp_clientes |-> {}, temp_pedidos |-> {}]

Init ==
    /\ db = TabelasVazias
    /\ committed = TabelasVazias
    /\ clientes_id_seq = 0
    /\ pedidos_id_seq = 0
    /\ sessoes = [s \in Sessoes |-> NoMenu]

Respostas == {"S", "N"}
IdsDigitados == 1..(MaxImports + 1)
IdsDeCliente == 1..(MaxSeq + 1)
EmailsDigitados == {"a@x.com"}

(* The handler returns to the menu, whatever the log store did, and the
   connection and the committed tables are as the handler left them *)
Aplicar(r) ==
    /\ \A estado \in EstadosDoLog : ~ComLog(r, estado).fatal
    /\ db' = r.db
    /\ committed' = r.committed

Arquivos == Docs \cup {NaoJson, NenhumArquivo}
UrlsDigitadas == {"", "jsonbin.io/b/1"}
RespostasHTTP ==
    {RespostaHTTP(200, c) : c \in Docs \cup {NaoJson}}
        \cup {RespostaHTTP(204, NaoJson), RespostaHTTP(404, NaoJson),
              RespostaHTTP(500, DocRecord), RespostaHTTP(418, DocRecord), ErroDeRequisicao}

ImportarDadosLocal ==
    /\ Len(db.dados_importados) < MaxImports
    /\ \E arquivo \in Arquivos :
       \E falha \in (IF arquivo \in Docs THEN FalhasImportacao ELSE {"nenhuma"}) :
           Aplicar(ui_importar_dados_local(db, committed, arquivo, falha))
    /\ UNCHANGED <<clientes_id_seq, pedidos_id_seq, sessoes>>

ImportarDados ==
    /\ Len(db.dados_importados) < MaxImports
    /\ \E url \in UrlsDigitadas, resposta \in RespostasHTTP, conf \in Respostas :
       \E falha \in (IF conf = "S" THEN FalhasImportacao ELSE {"nenhuma"}) :
           Aplicar(ui_importar_dados(db, committed, url, resposta, conf, falha))
    /\ UNCHANGED <<clientes_id_seq, pedidos_id_seq, sessoes>>

ProcessarDadosImportados ==
    /\ \E id \in IdsDigitados, conf \in Respostas :
       \E falha \in (IF conf = "S" /\ StatusDe(db, id) = NOVO
                      THEN FalhasStaging ELSE {"nenhuma"}) :
           Aplicar(ui_processar_dados_importados(db, committed, id, conf, falha))
    /\ UNCHANGED <<clientes_id_seq, pedidos_id_seq, sessoes>>

ConfirmarDadosProcessados ==
    /\ \E id \in IdsDigitados, conf \in Respostas :
       \E falha \in (IF conf = "S" /\ Lotes(db) # {}
                      THEN FalhasPromocao ELSE {"nenhuma"}) :
           Aplicar(ui_confirmar_dados_processados(db, committed, id, conf, falha))
    /\ UNCHANGED <<clientes_id_seq, pedidos_id_seq, sessoes>>

CadastrarCliente ==
    /\ clientes_id_seq < MaxSeq
    /\ \E email \in EmailsDigitados : Aplicar(ui_cadastrar_cliente(db, committed, clientes_id_seq, email))
    /\ clientes_id_seq' = clientes_id_seq + 1
    /\ UNCHANGED <<pedidos_id_seq, sessoes>>

EditarCliente ==
    /\ \E id \in IdsDeCliente, email \in EmailsDigitados \cup {""} :
           Aplicar(ui_editar_cliente(db, committed, id, email))
    /\ UNCHANGED <<clientes_id_seq, pedidos_id_seq, sessoes>>

ExcluirCliente ==
    /\ \E id \in IdsDeCliente, conf \in Respostas :
           Aplicar(ui_excluir_cliente(db, committed, id, conf))
    /\ UNCHANGED <<clientes_id_seq, pedidos_id_seq, sessoes>>

CadastrarPedido ==
    /\ pedidos_id_seq < MaxSeq
    /\ \E cid \in IdsDeCliente :
           LET r == ui_cadastrar_pedido(db, committed, pedidos_id_seq, cid)
           IN  /\ Aplicar(r)
               /\ pedidos_id_seq' = IF r.op.resultado = "nao_encontrado"
                                    THEN pedidos_id_seq
                                    ELSE pedidos_id_seq + 1
    /\ UNCHANGED <<clientes_id_seq, sessoes>>

Next ==
    \/ ImportarDadosLocal
    \/ ImportarDados
    \/ ProcessarDadosImportados
    \/ ConfirmarDadosProcessados
    \/ CadastrarCliente
    \/ EditarCliente
    \/ ExcluirCliente
    \/ CadastrarPedido

Spec == Init /\ [][Next]_vars

(* The store after a first ingestion, of a document that repeats an email *)
InitEmailRepetido ==
    /\ db = InserirDadoImportado(TabelasVazias, DocEmailRepetido)
    /\ committed = db
    /\ clientes_id_seq = 0
    /\ pedidos_id_seq = 0
    /\ sessoes = [s \in Sessoes |-> NoMenu]

SpecEmailRepetido == InitEmailRepetido /\ [][Next]_vars

(* Documents for the extraction: every shape of root, of the two collections and
   of the wrapper the extraction tells apart *)
Colecoes == {Ausente, Escalar, Lista(<<>>)}
ObjetosInternos ==
    {DictVazio,
     Obj(Ausente, Ausente, TRUE, SemRecord),
     Obj(Lista(<<Cli(2, "b@x.com")>>), Lista(<<Ped(1, 2, Hoje)>>), FALSE, SemRecord)}
Documentos ==
    {Obj(c, p, o, r) : c \in Colecoes \cup {Lista(<<Cli(1, "a@x.com")>>)},
                       p \in Colecoes \cup {Lista(<<Ped(1, 1, Hoje)>>)},
                       o \in BOOLEAN,
                       r \in {SemRecord, RecordEscalar}
                              \cup {RecordObjeto(i) : i \in ObjetosInternos}}
    \cup {RaizLista(k) : k \in SUBSET ChavesProcuradas}
    \cup {RaizTexto(k) : k \in SUBSET ChavesProcuradas}
    \cup {RaizNumero}

(* The store after a first ingestion, of any of these documents *)
InitExtracao ==
    /\ \E documento \in Documentos : db = InserirDadoImportado(TabelasVazias, documento)
    /\ committed = db
    /\ clientes_id_seq = 0
    /\ pedidos_id_seq = 0
    /\ sessoes = [s \in Sessoes |-> NoMenu]

SpecExtracao == InitExtracao /\ [][ProcessarDadosImportados]_vars

(* Two sessions on one database. A session reads the row and its status, waits
   at the prompt, and runs the transaction when the operator answers; the other
   session may run any of its own steps in between. Ingestion and promotion
   read nothing that they test before they write, and are one step each. *)
SelecionarRegistro(s) ==
    /\ sessoes[s].pc = "menu"
    /\ \E id \in DOMAIN committed.dados_importados :
           /\ PodeProcessar(committed.dados_importados[id].status)
           /\ sessoes' = [sessoes EXCEPT
                              ![s] = NaConfirmacao(id, committed.dados_importados[id])]
    /\ UNCHANGED <<db, committed, clientes_id_seq, pedidos_id_seq>>

CarregarStaging(s) ==
    /\ sessoes[s].pc = "confirmacao"
    /\ \E conf \in Respostas :
       \E falha \in (IF conf = "S" THEN FalhasStaging ELSE {"nenhuma"}) :
           Aplicar(CarregarParaStaging(committed, committed, sessoes[s].id_registro,
                                       sessoes[s].dado_json, sessoes[s].status,
                                       conf, falha))
    /\ sessoes' = [sessoes EXCEPT ![s] = NoMenu]
    /\ UNCHANGED <<clientes_id_seq, pedidos_id_seq>>

ImportarNaSessao(s) ==
    /\ sessoes[s].pc = "menu"
    /\ Len(committed.dados_importados) < MaxImports
    /\ \E arquivo \in Arquivos :
           Aplicar(ui_importar_dados_local(committed, committed, arquivo, "nenhuma"))
    /\ UNCHANGED <<clientes_id_seq, pedidos_id_seq, sessoes>>

ConfirmarNaSessao(s) ==
    /\ sessoes[s].pc = "menu"
    /\ \E id \in IdsDigitados, conf \in Respostas :
       \E falha \in (IF conf = "S" /\ Lotes(committed) # {}
                      THEN FalhasPromocao ELSE {"nenhuma"}) :
           Aplicar(ui_confirmar_dados_processados(committed, committed, id, conf, falha))
    /\ UNCHANGED <<clientes_id_seq, pedidos_id_seq, sessoes>>

NextSessoes ==
    \E s \in Sessoes :
        \/ ImportarNaSessao(s)
        \/ SelecionarRegistro(s)
        \/ CarregarStaging(s)
        \/ ConfirmarNaSessao(s)

SpecSessoes == Init /\ [][NextSessoes]_vars

----------------------------------------------------------------------------
(* Properties *)

RegistrosImportados == DOMAIN db.dados_importados
PayloadDe(id) == db.dados_importados[id].dado_json
ItensDe(valor) == IF valor.kind = "list" THEN valor.items ELSE <<>>
ClientesDeclarados(id) == ItensDe(find_data_in_json(PayloadDe(id)).clientes)
PedidosDeclarados(id) == ItensDe(find_data_in_json(PayloadDe(id)).pedidos)

(* The items of a list whose id is declared by no earlier item *)
PrimeiraOcorrencia(items) ==
    {items[k] : k \in {j \in 1..Len(items) :
                          \A m \in 1..(j - 1) : items[m].id # items[j].id}}

(* The payload has no clientes and no pedidos key, at the root or under 'record' *)
SemColecoes(dado_json) ==
    /\ ~TemClientes(dado_json)
    /\ ~TemPedidos(dado_json)
    /\ dado_json.record.kind = "object" =>
           (~TemClientes(dado_json.record.obj) /\ ~TemPedidos(dado_json.record.obj))

(* No table holds two rows with the same key *)
ChavesUnicas(d) ==
    /\ \A t1 \in d.temp_clientes, t2 \in d.temp_clientes :
          (t1.batch_id = t2.batch_id /\ t1.id = t2.id) => t1 = t2
    /\ \A t1 \in d.temp_pedidos, t2 \in d.temp_pedidos :
          (t1.batch_id = t2.batch_id /\ t1.id = t2.id) => t1 = t2

(* C1: every order of the record store refers to a customer that exists, in the
   connection's view and in the committed tables, whatever staging, promotion,
   direct creation and customer deletion came before. *)
C1_PedidoTemCliente ==
    /\ \A p \in db.pedidos : p.cliente_id \in Ids(db.clientes)
    /\ \A p \in committed.pedidos : p.cliente_id \in Ids(committed.clientes)

(* A lote whose promotion inserts orders and leaves out a staged order whose
   customer is not stored once the lote's customers are in *)
C1_Witness ==
    \E id \in Lotes(db) :
        LET r == ui_confirmar_dados_processados(db, committed, id, "S", "nenhuma")
        IN  /\ r.op.resultado = "ok"
            /\ r.op.pedidos >= 1
            /\ \E t \in DoLote(db.temp_pedidos, id) : t.cliente_id \notin Ids(r.db.clientes)
            /\ db.pedidos # {}

(* C2 (as claimed): a confirmed promotion naming a raw import that is NOVO or
   PROCESSADO is rejected: it does not commit and no table changes. *)
C2_PromocaoSoEmConfirmacao ==
    \A id \in RegistrosImportados :
        StatusDe(db, id) \in {NOVO, PROCESSADO} =>
            LET r == ui_confirmar_dados_processados(db, committed, id, "S", "nenhuma")
            IN  /\ r.op.resultado # "ok"
                /\ r.db = db
                /\ r.committed = committed

(* C3: staging a raw import that is not NOVO, or an unknown id, is turned away
   whatever the operator answers and wherever the store would have failed: no
   table changes and nothing is committed. *)
C3_ProcessarSoNovo ==
    \A id \in IdsDigitados, conf \in Respostas, falha \in FalhasStaging :
        StatusDe(db, id) # NOVO =>
            LET r == ui_processar_dados_importados(db, committed, id, conf, falha)
            IN  /\ r.op.resultado \in {"vazio", "nao_encontrado", "rejeitado"}
                /\ r.db = db
                /\ r.committed = committed

(* A raw import in confirmation with staged rows, a promoted one and an unknown
   id: staging each of them is turned away *)
C3_Witness ==
    /\ \E id \in RegistrosImportados :
          /\ StatusDe(db, id) = EM_CONFIRMACAO
          /\ DoLote(db.temp_clientes, id) # {}
          /\ ui_processar_dados_importados(db, committed, id, "S", "nenhuma").op.resultado
                 = "rejeitado"
    /\ \E id \in RegistrosImportados :
          /\ StatusDe(db, id) = PROCESSADO
          /\ ui_processar_dados_importados(db, committed, id, "S", "nenhuma").op.resultado
                 = "rejeitado"
    /\ \E id \in IdsDigitados :
          ui_processar_dados_importados(db, committed, id, "S", "nenhuma").op.resultado
              = "nao_encontrado"

(* What a second promotion must report and leave alone *)
NadaNovo(r, d) ==
    /\ r.op.resultado \in {"ok", "vazio"}
    /\ r.op.clientes = 0
    /\ r.op.pedidos = 0
    /\ r.db.clientes = d.clientes
    /\ r.db.pedidos = d.pedidos

(* C4: promoting a lote a second time, right after its promotion or at any later
   time while it is PROCESSADO, reports zero customers and zero orders and leaves
   clientes and pedidos as they were. *)
C4_PromocaoIdempotente ==
    \A id \in IdsDigitados :
        LET r1 == ui_confirmar_dados_processados(db, committed, id, "S", "nenhuma")
        IN  /\ r1.op.resultado = "ok" =>
                  NadaNovo(ui_confirmar_dados_processados(r1.db, r1.committed, id, "S", "nenhuma"),
                           r1.db)
            /\ StatusDe(db, id) = PROCESSADO => NadaNovo(r1, db)

(* A lote was promoted and its customers are stored, and the promotion menu
   still takes ids, so the lote is promoted a second time *)
C4_Witness ==
    \E id \in RegistrosImportados :
        /\ StatusDe(db, id) = PROCESSADO
        /\ \E c \in PrimeiraOcorrencia(ClientesDeclarados(id)) : c \in db.clientes
        /\ \E p \in PrimeiraOcorrencia(PedidosDeclarados(id)) : p \in db.pedidos
        /\ ui_confirmar_dados_processados(db, committed, id, "S", "nenhuma").op.resultado = "ok"

(* C5: a promotion that fails at any step (customer insert, order insert,
   staged-row delete, status update, commit) leaves every table as it was: no
   customer or order of the lote is stored, its staged rows are all there, its
   status is still EM_CONFIRMACAO and it is offered for promotion again. *)
C5_PromocaoTudoOuNada ==
    \A id \in IdsDigitados, falha \in FalhasPromocao :
        LET r == ui_confirmar_dados_processados(db, committed, id, "S", falha)
        IN  r.op.resultado = "erro" =>
                /\ r.db = db
                /\ r.committed = committed
                /\ r.db = r.committed
                /\ (id \in Lotes(db) => id \in Lotes(r.db))

(* A lote with staged customers and orders whose promotion fails after rows were
   written to clientes and pedidos *)
C5_Witness ==
    \E id \in Lotes(db), falha \in FalhasPromocao :
        /\ DoLote(db.temp_clientes, id) # {}
        /\ ui_confirmar_dados_processados(db, committed, id, "S", falha).op.resultado = "erro"
        /\ TransacaoPromocao(db, id, falha).db.clientes # db.clientes
        /\ TransacaoPromocao(db, id, falha).db.pedidos # db.pedidos

(* C6: a staging that raises at any step (delete of old staged rows, customer
   inserts, order inserts, status update, commit, or the structure error) leaves
   the staging tables and the status as before the call, and the connection holds
   nothing uncommitted that a later commit of another handler could make durable. *)
C6_StagingTudoOuNada ==
    /\ db = committed
    /\ \A id \in IdsDigitados, falha \in FalhasStaging :
          LET r == ui_processar_dados_importados(db, committed, id, "S", falha)
          IN  r.op.resultado \in {"erro", "erro_estrutura"} =>
                  /\ r.db = db
                  /\ r.committed = committed
                  /\ r.db = r.committed
                  /\ StatusDe(r.db, id) = NOVO

(* A NOVO raw import whose staging fails after rows were written to the staging
   tables *)
C6_Witness ==
    \E id \in RegistrosImportados, falha \in FalhasStaging :
        /\ StatusDe(db, id) = NOVO
        /\ ui_processar_dados_importados(db, committed, id, "S", falha).op.resultado = "erro"
        /\ TransacaoStaging(db, id, find_data_in_json(PayloadDe(id)), falha).db.temp_clientes
               # db.temp_clientes

(* C7 (as claimed): staging a NOVO raw import whose payload has neither
   collection fails with the structure error and changes nothing, so such a raw
   import is never in confirmation. *)
C7_SemColecoesNaoProcessa ==
    \A id \in RegistrosImportados :
        SemColecoes(PayloadDe(id)) =>
            /\ StatusDe(db, id) # EM_CONFIRMACAO
            /\ StatusDe(db, id) = NOVO =>
                  LET r == ui_processar_dados_importados(db, committed, id, "S", "nenhuma")
                  IN  r.op.resultado = "erro_estrutura" /\ r.db = db

(* C8 (as claimed): staging a raw import and then staging it again succeeds both
   times and reports the same customer and order counts. *)
C8_ReprocessarMesmasContagens ==
    \A id \in RegistrosImportados :
        LET r1 == ui_processar_dados_importados(db, committed, id, "S", "nenhuma")
            r2 == ui_processar_dados_importados(r1.db, r1.committed, id, "S", "nenhuma")
        IN  r1.op.resultado = "ok" =>
                /\ r2.op.resultado = "ok"
                /\ r2.op.clientes = r1.op.clientes
                /\ r2.op.pedidos = r1.op.pedidos

(* C8 (amended): staging a raw import and then staging it again: the second run
   is turned away because the status is EM_CONFIRMACAO, and changes nothing; the
   staging tables never hold two rows with the same (batch_id, id), and the rows
   of the batch are as many as the counts the first run reported. *)
C8_ReprocessarRejeitado ==
    /\ ChavesUnicas(db)
    /\ \A id \in RegistrosImportados :
          LET r1 == ui_processar_dados_importados(db, committed, id, "S", "nenhuma")
              r2 == ui_processar_dados_importados(r1.db, r1.committed, id, "S", "nenhuma")
          IN  r1.op.resultado = "ok" =>
                  /\ r2.op.resultado = "rejeitado"
                  /\ r2.db = r1.db
                  /\ r2.committed = r1.committed
                  /\ ChavesUnicas(r1.db)
                  /\ Cardinality(DoLote(r1.db.temp_clientes, id)) = r1.op.clientes
                  /\ Cardinality(DoLote(r1.db.temp_pedidos, id)) = r1.op.pedidos

(* A raw import whose payload repeats a customer id was staged: it is in
   confirmation with fewer staged customers than declared ones, and a second
   staging finds it so *)
C8_Witness ==
    \E id \in RegistrosImportados :
        /\ StatusDe(db, id) = EM_CONFIRMACAO
        /\ DoLote(db.temp_clientes, id) # {}
        /\ Cardinality(DoLote(db.temp_clientes, id)) < Len(ClientesDeclarados(id))
        /\ \E outro \in RegistrosImportados : outro # id /\ StatusDe(db, outro) = NOVO

(* C9: whatever lote is promoted and wherever the promotion stops, every customer
   and every order stored before it is stored after it with the same fields: a
   staged row whose id exists is skipped, nothing is overwritten or deleted. *)
C9_PromocaoSoAcrescenta ==
    \A id \in IdsDigitados, falha \in FalhasPromocao :
        LET r == ui_confirmar_dados_processados(db, committed, id, "S", falha)
        IN  /\ \A c \in db.clientes : {x \in r.db.clientes : x.id = c.id} = {c}
            /\ \A p \in db.pedidos : {x \in r.db.pedidos : x.id = p.id} = {p}
            /\ \A c \in committed.clientes : {x \in r.committed.clientes : x.id = c.id} = {c}
            /\ \A p \in committed.pedidos : {x \in r.committed.pedidos : x.id = p.id} = {p}

(* A lote that staged, for a customer id already stored, a customer with another
   email, and whose promotion commits *)
C9_Witness ==
    \E id \in Lotes(db) :
        /\ \E s \in DoLote(db.temp_clientes, id) :
              \E c \in db.clientes : c.id = s.id /\ c.email # s.email
        /\ \E s \in DoLote(db.temp_pedidos, id) : s.id \in Ids(db.pedidos)
        /\ ui_confirmar_dados_processados(db, committed, id, "S", "nenhuma").op.resultado = "ok"

(* The staged rows of a batch are the first occurrences of the declared ids *)
StagedSaoPrimeiras(d, id) ==
    /\ {[id |-> t.id, email |-> t.email] : t \in DoLote(d.temp_clientes, id)}
           = PrimeiraOcorrencia(ClientesDeclarados(id))
    /\ {[id |-> t.id, cliente_id |-> t.cliente_id, data_pedido |-> t.data_pedido] :
            t \in DoLote(d.temp_pedidos, id)}
           = PrimeiraOcorrencia(PedidosDeclarados(id))

(* C10: a staging stages, for each declared customer (order) id, its first
   occurrence in document order and skips the later ones without failing; the
   reported counts equal the number of distinct declared ids and the number of
   rows staged for the batch, and the rows stay so while in confirmation. *)
C10_PrimeiraOcorrenciaVence ==
    \A id \in RegistrosImportados :
        LET r == ui_processar_dados_importados(db, committed, id, "S", "nenhuma")
            cli == ClientesDeclarados(id)
            ped == PedidosDeclarados(id)
        IN  /\ StatusDe(db, id) = EM_CONFIRMACAO => StagedSaoPrimeiras(db, id)
            /\ StatusDe(db, id) = NOVO =>
                  /\ r.op.resultado = "ok" \/ EstruturaNaoReconhecida(find_data_in_json(PayloadDe(id)))
                  /\ r.op.resultado = "ok" =>
                        /\ StagedSaoPrimeiras(r.db, id)
                        /\ r.op.clientes = Cardinality({cli[k].id : k \in 1..Len(cli)})
                        /\ r.op.pedidos = Cardinality({ped[k].id : k \in 1..Len(ped)})
                        /\ r.op.clientes = Cardinality(DoLote(r.db.temp_clientes, id))
                        /\ r.op.pedidos = Cardinality(DoLote(r.db.temp_pedidos, id))

(* A raw import that declares a customer id twice and an order id twice, with
   differing fields, was staged and is in confirmation *)
C10_Witness ==
    \E id \in RegistrosImportados :
        LET cli == ClientesDeclarados(id)
            ped == PedidosDeclarados(id)
        IN  /\ StatusDe(db, id) = EM_CONFIRMACAO
            /\ \E j \in 1..Len(cli), k \in 1..Len(cli) :
                   j < k /\ cli[j].id = cli[k].id /\ cli[j] # cli[k]
            /\ \E j \in 1..Len(ped), k \in 1..Len(ped) :
                   j < k /\ ped[j].id = ped[k].id /\ ped[j] # ped[k]
            /\ Cardinality(DoLote(db.temp_pedidos, id)) < Len(ped)
            /\ DoLote(db.temp_pedidos, id) # {}

(* The raw imports of d are all in e, each with the payload it has in d *)
PayloadsPreservados(d, e) ==
    \A i \in DOMAIN d.dados_importados :
        /\ i \in DOMAIN e.dados_importados
        /\ e.dados_importados[i].dado_json = d.dados_importados[i].dado_json

(* C11: every step of every handler keeps each raw import and its payload, in
   the connection's view and in the committed tables: no raw import is deleted
   and no payload is rewritten after its insertion. *)
C11_PayloadImutavel ==
    [][PayloadsPreservados(db, db') /\ PayloadsPreservados(committed, committed')]_vars

(* A raw import went through staging and promotion, its customers are stored,
   and its payload still declares them *)
C11_Witness ==
    \E id \in RegistrosImportados :
        /\ StatusDe(db, id) = PROCESSADO
        /\ ClientesDeclarados(id) # <<>>
        /\ \E c \in PrimeiraOcorrencia(ClientesDeclarados(id)) : c \in db.clientes
        /\ DoLote(db.temp_clientes, id) = {}

(* What an ingestion that ran on the current tables may have done: on success,
   one row appended to dados_importados with the document, a fresh id and status
   NOVO, committed, and nothing else touched; otherwise nothing at all *)
EfeitoDeImportacao(r, documento) ==
    IF r.op.resultado = "ok"
    THEN /\ r.db = [db EXCEPT !.dados_importados =
                        Append(@, [dado_json |-> documento, status |-> NOVO])]
         /\ r.committed = r.db
         /\ r.op.id \notin DOMAIN db.dados_importados
         /\ r.op.id = Len(r.db.dados_importados)
    ELSE /\ r.db = db
         /\ r.committed = committed

(* C12: an ingestion from a local file or from a URL that succeeds inserts exactly
   one raw import, with a fresh id and status NOVO, and changes no other table;
   one that is cancelled or fails inserts none. It succeeds exactly when the
   document is JSON, the transport did not report a mapped error, the operator
   confirmed (URL) and no statement raised. *)
C12_ImportacaoInsereUm ==
    /\ \A arquivo \in Arquivos, falha \in FalhasImportacao :
          LET r == ui_importar_dados_local(db, committed, arquivo, falha)
          IN  /\ EfeitoDeImportacao(r, arquivo)
              /\ r.op.resultado = "ok" <=> (arquivo \in Docs /\ falha = "nenhuma")
    /\ \A url \in UrlsDigitadas \ {""}, resposta \in RespostasHTTP, conf \in Respostas,
          falha \in FalhasImportacao :
          LET r == ui_importar_dados(db, committed, url, resposta, conf, falha)
          IN  /\ r.op.resultado = "ok" => EfeitoDeImportacao(r, resposta.corpo)
              /\ r.op.resultado # "ok" => (r.db = db /\ r.committed = committed)
              /\ r.op.resultado = "ok" =>
                    (conf = "S" /\ falha = "nenhuma" /\ resposta.corpo \in Docs)
    /\ LET r == ui_importar_dados(db, committed, "", ErroDeRequisicao, "S", "nenhuma")
       IN  r.op.resultado = "sem_url" /\ r.db = db /\ r.committed = committed

(* After a promotion stored customers, a further document was ingested: it is the
   last raw import, NOVO, with nothing staged for it *)
C12_Witness ==
    /\ Len(db.dados_importados) >= 2
    /\ StatusDe(db, Len(db.dados_importados)) = NOVO
    /\ StatusDe(db, 1) = PROCESSADO
    /\ db.clientes # {}
    /\ DoLote(db.temp_clientes, Len(db.dados_importados)) = {}
    /\ PayloadDe(Len(db.dados_importados)) \in Docs

(* Answers the operator may type at a confirmation, after strip() and upper() *)
RespostasNegativas == {"N", ""}

(* C13: when the operator declines (N, or just Enter) at the confirmation of the URL
   ingestion, of staging or of promotion, the handler returns every table and the
   committed state as they were, whatever the id, the URL and the response. *)
C13_RecusarNaoMuda ==
    \A conf \in RespostasNegativas :
        /\ \A url \in UrlsDigitadas \ {""}, resposta \in RespostasHTTP :
              LET r == ui_importar_dados(db, committed, url, resposta, conf, "nenhuma")
              IN  r.op.resultado # "ok" /\ r.db = db /\ r.committed = committed
        /\ \A id \in IdsDigitados :
              LET r == ui_processar_dados_importados(db, committed, id, conf, "nenhuma")
              IN  r.op.resultado # "ok" /\ r.db = db /\ r.committed = committed
        /\ \A id \in IdsDigitados :
              LET r == ui_confirmar_dados_processados(db, committed, id, conf, "nenhuma")
              IN  r.op.resultado # "ok" /\ r.db = db /\ r.committed = committed

(* A state where each of the three confirmations is reached and, answered with S,
   would change the tables: a NOVO raw import with collections, a lote in
   confirmation with staged rows, and a JSON response; declining leaves them *)
C13_Witness ==
    /\ \E id \in RegistrosImportados :
          /\ StatusDe(db, id) = NOVO
          /\ ui_processar_dados_importados(db, committed, id, "N", "nenhuma").op.resultado
                 = "cancelado"
          /\ ui_processar_dados_importados(db, committed, id, "S", "nenhuma").db # db
    /\ \E id \in Lotes(db) :
          /\ DoLote(db.temp_clientes, id) # {}
          /\ ui_confirmar_dados_processados(db, committed, id, "N", "nenhuma").op.resultado
                 = "cancelado"
          /\ ui_confirmar_dados_processados(db, committed, id, "S", "nenhuma").db # db
    /\ ui_importar_dados(db, committed, "jsonbin.io/b/1", RespostaHTTP(200, DocRecord),
                         "N", "nenhuma").op.resultado = "cancelado"

(* C14: the URL ingestion inserts no raw import when the transport answers with a
   mapped error status or when the body is not JSON: it ends with an error before
   the confirmation, whatever the operator would answer, and the tables are as
   before. *)
C14_ErroDeTransporteNaoInsere ==
    \A url \in UrlsDigitadas \ {""}, conf \in Respostas :
        /\ \A codigo \in StatusMapeados, corpo \in {DocRecord, NaoJson} :
              LET r == ui_importar_dados(db, committed, url, RespostaHTTP(codigo, corpo),
                                         conf, "nenhuma")
              IN  /\ r.op.resultado = "erro_status"
                  /\ r.db = db
                  /\ r.committed = committed
        /\ \A codigo \in {200, 201, 204, 418} :
              LET r == ui_importar_dados(db, committed, url, RespostaHTTP(codigo, NaoJson),
                                         conf, "nenhuma")
              IN  /\ r.op.resultado = "erro_json"
                  /\ r.db = db
                  /\ r.committed = committed

(* Raw imports are in the queue, one of them staged, and an answer 404 with a JSON
   body, which confirmed under status 200 would be inserted, ends in the error *)
C14_Witness ==
    /\ Len(db.dados_importados) >= 1
    /\ \E id \in RegistrosImportados : StatusDe(db, id) = EM_CONFIRMACAO
    /\ ui_importar_dados(db, committed, "jsonbin.io/b/1", RespostaHTTP(200, DocRecord),
                         "S", "nenhuma").op.resultado = "ok"
    /\ ui_importar_dados(db, committed, "jsonbin.io/b/1", RespostaHTTP(404, DocRecord),
                         "S", "nenhuma").op.resultado = "erro_status"
    /\ ui_importar_dados(db, committed, "jsonbin.io/b/1", RespostaHTTP(200, NaoJson),
                         "S", "nenhuma").op.resultado = "erro_json"


(* The results of the handlers that log, run on the current state *)
ResultadosComLog ==
    {ui_importar_dados_local(db, committed, a, f) : a \in Arquivos, f \in FalhasImportacao}
    \cup {ui_importar_dados(db, committed, u, rp, c, f) :
            u \in UrlsDigitadas, rp \in RespostasHTTP, c \in Respostas, f \in FalhasImportacao}
    \cup {ui_processar_dados_importados(db, committed, id, c, f) :
            id \in IdsDigitados, c \in Respostas, f \in FalhasStaging}
    \cup {ui_cadastrar_cliente(db, committed, clientes_id_seq, e) : e \in EmailsDigitados}
    \cup {ui_editar_cliente(db, committed, id, e) : id \in Ids(db.clientes), e \in EmailsDigitados}
    \cup {ui_excluir_cliente(db, committed, id, c) : id \in IdsDeCliente, c \in Respostas}
    \cup {ui_cadastrar_pedido(db, committed, pedidos_id_seq, id) : id \in IdsDeCliente}

(* A failed logging is caught, goes to the console and leaves the handler's
   outcome and tables as a successful logging does *)
LogFalhoNaoMuda(r, estado) ==
    /\ ~ComLog(r, estado).fatal
    /\ ComLog(r, estado).op = ComLog(r, "ok").op
    /\ ComLog(r, estado).db = ComLog(r, "ok").db
    /\ ComLog(r, estado).committed = ComLog(r, "ok").committed
    /\ (ChamadasDeLog(r.op) # <<>> /\ ComLog(r, estado).logs = <<>>) =>
            ComLog(r, estado).console = <<"CRITICAL LOGGING ERROR">>

(* C15 (as claimed): no call of log_evento lets a failure reach its caller,
   neither the call main makes at startup nor the calls of the handlers: the
   failure is printed as the console fallback and the caller goes on with the
   outcome and the tables it has when logging succeeds. *)
C15_LogNuncaPropaga ==
    /\ \A estado \in EstadosDoLog :
          /\ ~main_inicio(estado).raised
          /\ main_inicio(estado).linhas = <<>> =>
                main_inicio(estado).console = <<"CRITICAL LOGGING ERROR">>
    /\ \A r \in ResultadosComLog, estado \in EstadosDoLog : LogFalhoNaoMuda(r, estado)

(* The part of C15 that holds: once the pool exists, which is the case for every
   call made from a menu handler, a failed logging never reaches the handler *)
LogDosHandlersNaoPropaga ==
    \A r \in ResultadosComLog, estado \in EstadosDoLog : LogFalhoNaoMuda(r, estado)


(* C16: a confirmed delete of a customer that exists leaves no order of that
   customer, on the connection and in the committed tables, and the orders of
   every other customer are exactly as before. *)
C16_ExcluirClienteCascata ==
    \A id \in Ids(db.clientes) :
        LET r == ui_excluir_cliente(db, committed, id, "S")
        IN  /\ r.op.resultado = "ok"
            /\ id \notin Ids(r.db.clientes)
            /\ ~\E p \in r.db.pedidos : p.cliente_id = id
            /\ ~\E p \in r.committed.pedidos : p.cliente_id = id
            /\ {p \in r.db.pedidos : p.cliente_id # id} = {p \in db.pedidos : p.cliente_id # id}
            /\ r.db.pedidos \subseteq db.pedidos

(* A customer with an order is deleted while another customer has an order too *)
C16_Witness ==
    \E id \in Ids(db.clientes) :
        /\ \E p \in db.pedidos : p.cliente_id = id
        /\ \E p \in db.pedidos : p.cliente_id # id
        /\ ui_excluir_cliente(db, committed, id, "S").db.pedidos # db.pedidos
        /\ ui_excluir_cliente(db, committed, id, "S").db.pedidos # {}


EmailsUnicos(clientes) ==
    \A c1 \in clientes, c2 \in clientes : c1.email = c2.email => c1 = c2

(* C17: in every reachable state no two customers have the same email, on the
   connection and in the committed tables, whatever creations, edits and
   promotions came before, promotions of a lote that repeats an email under
   different ids included. *)
C17_EmailsUnicos ==
    /\ EmailsUnicos(db.clientes)
    /\ EmailsUnicos(committed.clientes)

(* A lote in confirmation holds two staged customers with one email and different
   ids, both new to a store that has a customer; its promotion was refused *)
C17_Witness ==
    /\ db.clientes # {}
    /\ \E id \in Lotes(db) :
          /\ \E s1 \in DoLote(db.temp_clientes, id), s2 \in DoLote(db.temp_clientes, id) :
                /\ s1.id # s2.id
                /\ s1.email = s2.email
                /\ {s1.id, s2.id} \cap Ids(db.clientes) = {}
          /\ ui_confirmar_dados_processados(db, committed, id, "S", "nenhuma").op.resultado
                 = "erro"


(* The resolution in three steps, on keys of the root object: the root when it has
   the key clientes or the key pedidos; else the value of record when it is an
   object; else nothing *)
ResolucaoEmTresPassos(documento) ==
    IF EhObjeto(documento)
           /\ (documento.clientes.kind # "absent" \/ documento.pedidos.kind # "absent")
    THEN documento
    ELSE IF EhObjeto(documento) /\ documento.record.kind = "object"
    THEN documento.record.obj
    ELSE DictVazio

(* C18 (as claimed): for every document in the queue, the extraction gives what
   the three-step resolution gives: the document itself when its root has the key
   clientes or pedidos, wrapper or not; else the wrapper's object; else empty. *)
C18_ResolucaoEmTresPassos ==
    \A id \in RegistrosImportados :
        find_data_in_json(PayloadDe(id)) = ResolucaoEmTresPassos(PayloadDe(id))

(* The part of C18 that holds: documents whose root is an object *)
ResolucaoDeObjetos ==
    \A id \in RegistrosImportados :
        EhObjeto(PayloadDe(id)) =>
            find_data_in_json(PayloadDe(id)) = ResolucaoEmTresPassos(PayloadDe(id))


(* The staged orders of a lote a promotion has to insert: those whose customer is
   in clientes once the lote's customers are in (the customers already there and
   the staged ones), and whose id is not the id of an order *)
PedidosAPromover(id) ==
    {s \in DoLote(db.temp_pedidos, id) :
        /\ s.cliente_id \in Ids(db.clientes) \cup Ids(DoLote(db.temp_clientes, id))
        /\ s.id \notin Ids(db.pedidos)}

(* C19: a promotion that succeeds adds to pedidos exactly the staged orders of the
   lote whose customer is in clientes after the lote's customers were inserted and
   whose id is new, an order of a customer promoted with it included; it reports
   that many, never more than the staged orders whose customer is an existing or
   a staged customer, and keeps every order that was there. *)
C19_PedidosPromovidos ==
    \A id \in IdsDigitados :
        LET r == ui_confirmar_dados_processados(db, committed, id, "S", "nenhuma")
        IN  r.op.resultado = "ok" =>
              /\ r.db.pedidos = db.pedidos \cup
                    {[id |-> s.id, cliente_id |-> s.cliente_id, data_pedido |-> s.data_pedido] :
                        s \in PedidosAPromover(id)}
              /\ r.op.pedidos = Cardinality(PedidosAPromover(id))
              /\ r.op.pedidos <= Cardinality(
                    {s \in DoLote(db.temp_pedidos, id) :
                        s.cliente_id \in Ids(db.clientes) \cup Ids(DoLote(db.temp_clientes, id))})
              /\ r.committed.pedidos = r.db.pedidos

(* A lote is promoted in which one order belongs to a customer that comes with the
   lote and is not yet in clientes, and another names a customer found nowhere *)
C19_Witness ==
    \E id \in Lotes(db) :
        LET r == ui_confirmar_dados_processados(db, committed, id, "S", "nenhuma")
        IN  /\ r.op.resultado = "ok"
            /\ \E s \in DoLote(db.temp_pedidos, id) :
                  /\ s.cliente_id \notin Ids(db.clientes)
                  /\ s.cliente_id \in Ids(DoLote(db.temp_clientes, id))
                  /\ s.id \in Ids(r.db.pedidos) \ Ids(db.pedidos)
            /\ \E s \in DoLote(db.temp_pedidos, id) :
                  /\ s.cliente_id \notin Ids(r.db.clientes)
                  /\ s.id \notin Ids(r.db.pedidos)


(* C20: after a promotion that succeeds, no staged customer and no staged order of
   the promoted lote remains, the raw import of that id is PROCESSADO, and the
   staged rows of every other lote are the ones that were there, on the connection
   and committed. *)
C20_StagingDoLoteRemovido ==
    \A id \in IdsDigitados :
        LET r == ui_confirmar_dados_processados(db, committed, id, "S", "nenhuma")
        IN  r.op.resultado = "ok" =>
              /\ DoLote(r.db.temp_clientes, id) = {}
              /\ DoLote(r.db.temp_pedidos, id) = {}
              /\ id \in RegistrosImportados => StatusDe(r.db, id) = PROCESSADO
              /\ r.db.temp_clientes = db.temp_clientes \ DoLote(db.temp_clientes, id)
              /\ r.db.temp_pedidos = db.temp_pedidos \ DoLote(db.temp_pedidos, id)
              /\ \A outro \in RegistrosImportados \ {id} :
                    StatusDe(r.db, outro) = StatusDe(db, outro)
              /\ r.committed = r.db

(* Two lotes are in confirmation, each with staged customers and orders, and the
   promotion of one of them succeeds *)
C20_Witness ==
    \E id \in Lotes(db), outro \in Lotes(db) :
        /\ id # outro
        /\ DoLote(db.temp_clientes, id) # {} /\ DoLote(db.temp_pedidos, id) # {}
        /\ DoLote(db.temp_clientes, outro) # {} /\ DoLote(db.temp_pedidos, outro) # {}
        /\ ui_confirmar_dados_processados(db, committed, id, "S", "nenhuma").op.resultado = "ok"


(* C21 (as claimed): a promotion never marks PROCESSADO a raw import for which it
   found no staged customer and no staged order: with nothing staged for the id,
   a confirmed promotion does not succeed and leaves the status as it was. *)
C21_PromocaoExigeLinhas ==
    \A id \in RegistrosImportados :
        (DoLote(db.temp_clientes, id) = {} /\ DoLote(db.temp_pedidos, id) = {}
            /\ StatusDe(db, id) # PROCESSADO) =>
            LET r == ui_confirmar_dados_processados(db, committed, id, "S", "nenhuma")
            IN  /\ r.op.resultado # "ok"
                /\ StatusDe(r.db, id) = StatusDe(db, id)


(* The staged orders of a lote whose customer is neither in clientes nor among the
   staged customers of the lote *)
PedidosOrfaos(id) ==
    {s \in DoLote(db.temp_pedidos, id) :
        s.cliente_id \notin Ids(db.clientes) \cup Ids(DoLote(db.temp_clientes, id))}

SemPedidosOrfaos(id) == [db EXCEPT !.temp_pedidos = @ \ PedidosOrfaos(id)]

(* C22: staged orders whose customer exists nowhere do not change what a promotion
   does: it ends as it ends without them, with the same customers and orders in
   the tables and the same counts; when it succeeds the lote is PROCESSADO and
   those orders are neither in pedidos nor in staging. *)
C22_PedidoOrfaoNaoFalha ==
    \A id \in Lotes(db) :
        LET r == ui_confirmar_dados_processados(db, committed, id, "S", "nenhuma")
            s == ui_confirmar_dados_processados(SemPedidosOrfaos(id), committed, id,
                                                "S", "nenhuma")
        IN  /\ r.op.resultado = s.op.resultado
            /\ r.op.clientes = s.op.clientes /\ r.op.pedidos = s.op.pedidos
            /\ r.db.clientes = s.db.clientes /\ r.db.pedidos = s.db.pedidos
            /\ r.op.resultado = "ok" =>
                  /\ StatusDe(r.db, id) = PROCESSADO
                  /\ \A o \in PedidosOrfaos(id) :
                        /\ [id |-> o.id, cliente_id |-> o.cliente_id,
                            data_pedido |-> o.data_pedido] \notin r.db.pedidos
                        /\ o \notin r.db.temp_pedidos
                        /\ o \notin r.committed.temp_pedidos

(* A lote holds an order of a customer that exists nowhere next to a customer and
   an order that are new to the tables; its promotion succeeds and inserts them *)
C22_Witness ==
    \E id \in Lotes(db) :
        LET r == ui_confirmar_dados_processados(db, committed, id, "S", "nenhuma")
        IN  /\ PedidosOrfaos(id) # {}
            /\ r.op.resultado = "ok"
            /\ r.op.clientes >= 1
            /\ r.op.pedidos >= 1


(* The runs of ingestion, staging and promotion on the current state, with a
   statement or the commit failing where one can *)
ExecucoesDoPipeline ==
    {ui_importar_dados_local(db, committed, a, f) :
        a \in {DocRecord, NaoJson}, f \in FalhasImportacao}
    \cup {ui_importar_dados(db, committed, "jsonbin.io/b/1", rp, "S", f) :
            rp \in {RespostaHTTP(200, DocRecord), RespostaHTTP(404, NaoJson), ErroDeRequisicao},
            f \in FalhasImportacao}
    \cup {ui_processar_dados_importados(db, committed, id, "S", f) :
            id \in RegistrosImportados, f \in FalhasStaging}
    \cup {ui_confirmar_dados_processados(db, committed, id, "S", f) :
            id \in Lotes(db), f \in FalhasPromocao}

(* C23 (as claimed): every run of an ingestion, of staging or of promotion that
   ends in an exception rolls the transaction back and calls log_evento, so that
   a log entry is appended when the log store is there. *)
C23_FalhasRegistradas ==
    \A r \in ExecucoesDoPipeline :
        TerminouEmExcecao(r.op) =>
            /\ RollbackDe(r.op) # "nenhum"
            /\ r.db = r.committed
            /\ ChamadasDeLog(r.op) # <<>>
            /\ ComLog(r, "ok").logs # <<>>

(* The part of C23 that holds: the ingestion from a URL *)
FalhasDaWebRegistradas ==
    \A r \in ExecucoesDoPipeline :
        (TerminouEmExcecao(r.op) /\ r.op.op = "importar_web") =>
            /\ RollbackDe(r.op) # "nenhum"
            /\ r.db = r.committed
            /\ ComLog(r, "ok").logs # <<>>


(* C24 (as claimed): each id sequence is at or above the largest id of its table,
   promoted ids included, so a direct creation never fails on the primary key: a
   customer with an unused email and an order of an existing customer are stored. *)
C24_SequenciaAcimaDosIds ==
    /\ \A c \in db.clientes : c.id <= clientes_id_seq
    /\ \A p \in db.pedidos : p.id <= pedidos_id_seq
    /\ \A email \in EmailsDigitados :
          (~\E c \in db.clientes : c.email = email) =>
              ui_cadastrar_cliente(db, committed, clientes_id_seq, email).op.resultado = "ok"
    /\ \A cliente_id \in Ids(db.clientes) :
          ui_cadastrar_pedido(db, committed, pedidos_id_seq, cliente_id).op.resultado = "ok"


(* The runs of the handlers on the current state that end in an except block *)
ExecucoesComErro ==
    {r \in ExecucoesDoPipeline
           \cup {ui_cadastrar_cliente(db, committed, clientes_id_seq, e) : e \in EmailsDigitados}
           \cup {ui_editar_cliente(db, committed, id, e) :
                    id \in Ids(db.clientes), e \in EmailsDigitados}
           \cup {ui_cadastrar_pedido(db, committed, pedidos_id_seq, id) : id \in IdsDeCliente} :
        TerminouEmExcecao(r.op)}

(* C25 (as claimed): no failure of a handler ends the process: whatever the
   rollback of its except block does, the run returns to the menu. *)
C25_ProcessoNuncaEncerra ==
    \A r \in ExecucoesComErro, rollback \in EstadosDoRollback : ~EncerraProcesso(r, rollback)


(* The place of a status in the lifecycle *)
Ordem(status) == IF status = NOVO THEN 1 ELSE IF status = EM_CONFIRMACAO THEN 2 ELSE 3

(* From tables d to tables e no raw import goes back in the lifecycle, and one that
   is PROCESSADO stays so and has no staged row *)
SoAvanca(d, e) ==
    \A id \in DOMAIN d.dados_importados :
        /\ id \in DOMAIN e.dados_importados
        /\ Ordem(StatusDe(e, id)) >= Ordem(StatusDe(d, id))
        /\ StatusDe(d, id) = PROCESSADO =>
              /\ StatusDe(e, id) = PROCESSADO
              /\ DoLote(e.temp_clientes, id) = {}
              /\ DoLote(e.temp_pedidos, id) = {}

(* C26: in every step of the session the status of every raw import stays or moves
   forward in the order NOVO, EM_CONFIRMACAO, PROCESSADO, on the connection and in
   the committed tables; a raw import that is PROCESSADO keeps that status and
   never has staged rows again. *)
C26_StatusSoAvanca ==
    [][SoAvanca(db, db') /\ SoAvanca(committed, committed')]_vars

(* One raw import is PROCESSADO and has no staged rows, a later one is NOVO, and
   staging the first again is turned away *)
C26_Witness ==
    \E id \in RegistrosImportados, outro \in RegistrosImportados :
        /\ StatusDe(db, id) = PROCESSADO
        /\ DoLote(db.temp_clientes, id) = {} /\ DoLote(db.temp_pedidos, id) = {}
        /\ db.clientes # {}
        /\ StatusDe(db, outro) = NOVO
        /\ ui_processar_dados_importados(db, committed, id, "S", "nenhuma").op.resultado
               = "rejeitado"


(* Every staged row of tables d belongs to a raw import that is in confirmation *)
StagingSoEmConfirmacao(d) ==
    \A t \in d.temp_clientes \cup d.temp_pedidos :
        /\ t.batch_id \in DOMAIN d.dados_importados
        /\ StatusDe(d, t.batch_id) = EM_CONFIRMACAO

(* C27: in every committed state, and on the connection between two handlers, a
   staged customer or order exists only for a raw import that is in confirmation;
   so for every raw import that staging accepts, the DELETEs that open the
   staging transaction remove no row. *)
C27_StagingSoEmConfirmacao ==
    /\ StagingSoEmConfirmacao(committed)
    /\ StagingSoEmConfirmacao(db)
    /\ \A id \in RegistrosImportados :
          PodeProcessar(StatusDe(db, id)) => DeleteTemp(db, id) = db

(* Staged rows of a lote in confirmation are committed, an order-only part of
   them included, while another raw import is NOVO and staging it would succeed *)
C27_Witness ==
    \E id \in Lotes(committed), outro \in RegistrosImportados :
        /\ DoLote(committed.temp_clientes, id) # {}
        /\ DoLote(committed.temp_pedidos, id) # {}
        /\ StatusDe(db, outro) = NOVO
        /\ ui_processar_dados_importados(db, committed, outro, "S", "nenhuma").op.resultado
               = "ok"


(* The staged customers of a lote that are new by id and repeat the email of a
   customer in the table or of another new staged customer of the lote *)
ClientesComEmailRepetido(id) ==
    {s \in DoLote(db.temp_clientes, id) :
        /\ s.id \notin Ids(db.clientes)
        /\ \/ \E c \in db.clientes : c.email = s.email
           \/ \E t \in DoLote(db.temp_clientes, id) :
                 t.id # s.id /\ t.id \notin Ids(db.clientes) /\ t.email = s.email}

(* C28: the promotion of a lote with a staged customer of a new id and a repeated
   email fails as a whole: the tables are the committed ones, with no customer or
   order added, the staged rows of the lote kept and the status in confirmation;
   promoting again from there fails in the same way. *)
C28_EmailRepetidoFalhaTudo ==
    \A id \in Lotes(db) :
        ClientesComEmailRepetido(id) # {} =>
            LET r == ui_confirmar_dados_processados(db, committed, id, "S", "nenhuma")
                r2 == ui_confirmar_dados_processados(r.db, r.committed, id, "S", "nenhuma")
            IN  /\ r.op.resultado = "erro"
                /\ r.db = committed
                /\ r.committed = committed
                /\ r.db.clientes = db.clientes /\ r.db.pedidos = db.pedidos
                /\ DoLote(r.db.temp_clientes, id) = DoLote(db.temp_clientes, id)
                /\ DoLote(r.db.temp_pedidos, id) = DoLote(db.temp_pedidos, id)
                /\ StatusDe(r.db, id) = EM_CONFIRMACAO
                /\ r2 = r

(* Two lotes are in confirmation: one repeats an email inside the lote under two
   new ids, the other brings, with an order, a new id with the email of a customer
   already in the table *)
C28_Witness ==
    \E id \in Lotes(db), outro \in Lotes(db) :
        /\ \E s \in ClientesComEmailRepetido(id) :
              \E t \in ClientesComEmailRepetido(id) : t.id # s.id /\ t.email = s.email
        /\ \E s \in ClientesComEmailRepetido(outro) :
              \E c \in db.clientes : c.email = s.email
        /\ DoLote(db.temp_pedidos, outro) # {}


(* The round trip from the current state: export, ingest the exported file, stage
   the new raw import, promote it; every prompt answered 'S', nothing failing *)
IdaEVolta ==
    LET exportado == ui_exportar_dados(db, "S")
        r1 == ui_importar_dados_local(db, committed, exportado.dados, "nenhuma")
        r2 == ui_processar_dados_importados(r1.db, r1.committed, r1.op.id, "S", "nenhuma")
        r3 == ui_confirmar_dados_processados(r2.db, r2.committed, r1.op.id, "S", "nenhuma")
    IN  [exportado |-> exportado, importar |-> r1, processar |-> r2, confirmar |-> r3]

(* C29: from every state, exporting the tables, ingesting the exported document,
   staging it and promoting it succeeds at each step, reports zero customers and
   zero orders inserted, and leaves clientes and pedidos as they were exported. *)
C29_IdaEVoltaNaoMuda ==
    LET t == IdaEVolta
    IN  /\ t.exportado.resultado = "ok"
        /\ t.importar.op.resultado = "ok"
        /\ t.processar.op.resultado = "ok"
        /\ t.processar.op.clientes = Cardinality(db.clientes)
        /\ t.processar.op.pedidos = Cardinality(db.pedidos)
        /\ t.confirmar.op.resultado = "ok"
        /\ t.confirmar.op.clientes = 0
        /\ t.confirmar.op.pedidos = 0
        /\ t.confirmar.db.clientes = db.clientes
        /\ t.confirmar.db.pedidos = db.pedidos
        /\ t.confirmar.committed = t.confirmar.db
        /\ StatusDe(t.confirmar.db, t.importar.op.id) = PROCESSADO

(* The store holds two customers and an order when the round trip ends with its
   own lote processed *)
C29_Witness ==
    /\ Cardinality(db.clientes) >= 2
    /\ db.pedidos # {}
    /\ IdaEVolta.confirmar.op.resultado = "ok"
    /\ Len(IdaEVolta.confirmar.db.dados_importados) = Len(db.dados_importados) + 1


(* C30: with two sessions interleaving, no step changes a raw import that is
   already PROCESSADO: its status stays PROCESSADO and it has no staged row
   after the step, whichever session's staging transaction commits. *)
C30_ProcessadoNaoVolta ==
    [][\A id \in DOMAIN committed.dados_importados :
          StatusDe(committed, id) = PROCESSADO =>
              /\ StatusDe(committed', id) = PROCESSADO
              /\ DoLote(committed'.temp_clientes, id) = {}
              /\ DoLote(committed'.temp_pedidos, id) = {}]_vars

====
